---- MODULE Spec2Model ----
(***************************************************************************)
(* staticgenerator: the path-to-filename mapping and the publish / delete  *)
(* protocol of class StaticGenerator (src/staticgenerator/__init__.py).    *)
(*                                                                         *)
(* Strings of the program (URL paths, query strings, file names) are       *)
(* sequences of one-character strings, so that split, lstrip, endswith,    *)
(* join, dirname and len are computed as the code computes them.  File     *)
(* contents are opaque strings.  Python's None is the value None below     *)
(* for paths and NoContent for contents.                                   *)
(***************************************************************************)
EXTENDS Naturals, Sequences, FiniteSets, TLC

VARIABLES
    files,      \* the filesystem: absolute name of a regular file -> its content
    dirs,       \* the filesystem: the directories that exist (besides "/")
    proc,       \* per process: the StaticGenerator instance, its position in do_all and
                \* in the function do_all applies, and that function's locals
    m_in,       \* mapper harness: the inputs handed to the pure functions
    m_out       \* mapper harness: what they returned

vars == <<files, dirs, proc, m_in, m_out>>

----------------------------------------------------------------------------
(* Values *)

None == <<"None">>
NoContent == "None"

\* len(filename) > 255
MaxFilenameLen == 255

\* settings.WEB_ROOT
web_root == <<"/", "w">>

\* the index document named with a literal question mark
IndexSuffixLiteral == <<"i", "n", "d", "e", "x", ".", "h", "t", "m", "l", "?">>

\* 'index.html%3F' ('%sindex.html%%3F' % path)
IndexSuffix == <<"i", "n", "d", "e", "x", ".", "h", "t", "m", "l", "%", "3", "F">>

\* the AJAX suffix forgotten
AjaxSuffixEmpty == <<>>

\* ',ajax'
AjaxSuffix == <<",", "a", "j", "a", "x">>

----------------------------------------------------------------------------
(* String functions of Python, on sequences of characters *)

\* str.endswith('/')
endswith_slash(s) == Len(s) > 0 /\ s[Len(s)] = "/"

\* str.lstrip('/')
lstrip_slash(s) ==
    LET keep == {i \in 1..Len(s) : s[i] # "/"}
    IN  IF keep = {} THEN <<>>
        ELSE SubSeq(s, CHOOSE i \in keep : \A j \in keep : i <= j, Len(s))

\* str.rstrip('/')
rstrip_slash(s) ==
    LET keep == {i \in 1..Len(s) : s[i] # "/"}
    IN  IF keep = {} THEN <<>>
        ELSE SubSeq(s, 1, CHOOSE i \in keep : \A j \in keep : i >= j)

\* str.split('?'): the list of the parts between the question marks
RECURSIVE split_qmark(_)
split_qmark(s) ==
    LET marks == {i \in 1..Len(s) : s[i] = "?"}
    IN  IF marks = {} THEN <<s>>
        ELSE LET i == CHOOSE k \in marks : \A j \in marks : k <= j
             IN  <<SubSeq(s, 1, i - 1)>> \o split_qmark(SubSeq(s, i + 1, Len(s)))

\* os.path.join(a, b) of posixpath, for two components
os_path_join(a, b) ==
    IF Len(b) > 0 /\ b[1] = "/" THEN b
    ELSE IF a = <<>> \/ endswith_slash(a) THEN a \o b
    ELSE a \o <<"/">> \o b

\* os.path.dirname(p) of posixpath
os_path_dirname(p) ==
    LET slashes == {i \in 1..Len(p) : p[i] = "/"}
        i == IF slashes = {} THEN 0 ELSE CHOOSE k \in slashes : \A j \in slashes : k >= j
        head == SubSeq(p, 1, i)
    IN  IF head # <<>> /\ rstrip_slash(head) # <<>> THEN rstrip_slash(head) ELSE head

----------------------------------------------------------------------------
(* The path mapper *)

\* get_query_string_from_path with the len(parts) > 2 test dropped
get_query_string_from_path_truncating(p) ==
    LET parts == split_qmark(p)
    IN  IF Len(parts) = 1 THEN [raised |-> FALSE, path |-> parts[1], query_string |-> None]
        ELSE [raised |-> FALSE, path |-> parts[1], query_string |-> parts[2]]

\* get_query_string_from_path(path): (path, query string), or raises
get_query_string_from_path(p) ==
    LET parts == split_qmark(p)
    IN  IF Len(parts) = 1 THEN [raised |-> FALSE, path |-> parts[1], query_string |-> None]
        ELSE IF Len(parts) > 2 THEN [raised |-> TRUE, path |-> None, query_string |-> None]
        ELSE [raised |-> FALSE, path |-> parts[1], query_string |-> parts[2]]

\* the query string never appended
truthy_never(q) == FALSE

\* Python's truth value of the query_string argument
truthy(q) == q # None /\ q # <<>>

\* the name before the length test: lines 149-163
mapped_name(p, q, is_ajax) ==
    LET p1 == IF endswith_slash(p) THEN p \o IndexSuffix ELSE p
        p2 == IF truthy(q) THEN p1 \o q ELSE p1
        p3 == IF is_ajax THEN p2 \o AjaxSuffix ELSE p2
    IN  os_path_join(web_root, lstrip_slash(p3))

\* get_filename_from_path with the length test off by one (>= for >)
get_filename_from_path_ge(p, q, is_ajax) ==
    LET fn == mapped_name(p, q, is_ajax)
    IN  IF Len(fn) >= MaxFilenameLen THEN <<None, None>>
        ELSE <<fn, os_path_dirname(fn)>>

\* get_filename_from_path(path, query_string, is_ajax): <<filename, directory>>
get_filename_from_path(p, q, is_ajax) ==
    LET fn == mapped_name(p, q, is_ajax)
    IN  IF Len(fn) > MaxFilenameLen THEN <<None, None>>
        ELSE <<fn, os_path_dirname(fn)>>

----------------------------------------------------------------------------
(* The filesystem, as the os / shutil / tempfile calls of the code see it *)

FsRoot == <<"/">>

is_file(n) == n \in DOMAIN files
is_dir(n) == n = FsRoot \/ n \in dirs

\* os.path.exists(n)
os_path_exists(n) == is_file(n) \/ is_dir(n)

\* n lies below directory d
Under(n, d) ==
    /\ Len(n) > Len(d) + 1
    /\ SubSeq(n, 1, Len(d)) = d
    /\ n[Len(d) + 1] = "/"

\* the proper ancestors of n, up to "/"
RECURSIVE Ancestors(_)
Ancestors(n) ==
    LET d == os_path_dirname(n)
    IN  IF d = n \/ d = <<>> THEN {} ELSE {d} \cup Ancestors(d)

\* os.makedirs(d) succeeds: d does not exist and no ancestor is a regular file
makedirs_ok(d) ==
    /\ ~os_path_exists(d)
    /\ \A a \in Ancestors(d) : ~is_file(a)

\* the directories after a successful os.makedirs(d)
makedirs(d) == dirs \cup {d} \cup (Ancestors(d) \ {FsRoot})

\* an rmdir that takes every directory for an empty one
is_empty_dir_always(d) == TRUE

\* directory d holds no entry
is_empty_dir(d) ==
    /\ \A n \in DOMAIN files : os_path_dirname(n) # d
    /\ \A n \in dirs : n = d \/ os_path_dirname(n) # d

\* the files left by removing the names in gone
without(gone) == [n \in DOMAIN files \ gone |-> files[n]]

\* a remove that leaves the file in place
os_remove_nothing(n) == files

\* the files after os.remove(n) of a regular file
os_remove(n) == without({n})

\* number of temporary names tempfile.mkstemp can hand to one process in one directory
MaxTmp == 2

\* the k-th temporary name of process p in directory d
tmp_name(d, p, k) == d \o <<"/", "tmp", p, ToString(k)>>

is_tmp_name(n) == Len(n) > 3 /\ n[Len(n) - 2] = "tmp"

----------------------------------------------------------------------------
(* One process: a StaticGenerator instance running do_all(func) *)

Procs == {"p1", "p2"}

NoError == "NoError"

\* the defaults of publish_from_path and delete_from_path, as do_all calls them
DefaultArgs == [query_string |-> None, content |-> NoContent, is_ajax |-> FALSE]

\* no request has been handed to the handler in this call
NotRendered ==
    [called |-> FALSE, path |-> None, is_ajax |-> FALSE, raised |-> FALSE,
     status_code |-> 0, content |-> NoContent]

InitProc ==
    [pc |-> "idle", op |-> "none", resources |-> <<>>, idx |-> 0, args |-> DefaultArgs,
     path |-> None, query_string |-> None, filename |-> None, directory |-> None,
     content |-> NoContent, tmpname |-> None,
     rendered |-> NotRendered, error |-> NoError, returned |-> <<>>]

\* the locals of the finished call are gone
Cleared(st) ==
    [st EXCEPT !.path = None, !.query_string = None, !.filename = None,
               !.directory = None, !.content = NoContent, !.tmpname = None]

\* a do_all that catches the exception and goes on with the next resource
RaiseAndContinue(st, kind) == [Cleared(st) EXCEPT !.pc = "loop", !.error = kind]

\* an exception leaves func and the list comprehension of do_all: the batch ends
Raise(st, kind) == [Cleared(st) EXCEPT !.pc = "idle", !.error = kind]

\* func returns: do_all goes on; returned records what the call worked on
Return(st) ==
    [Cleared(st) EXCEPT !.pc = "loop",
        !.returned = Append(@, [filename |-> st.filename, content |-> st.content])]

\* the resource do_all hands to func next
NextResource(st) == st.resources[st.idx + 1]

\* the resource of the call in progress (content_path in publish_from_path)
CurrentResource(st) == st.resources[st.idx]

\* quick_publish / quick_delete / recursive_delete, or a direct call of
\* publish_from_path / delete_from_path with arguments: inp is
\* [op, resources, args]
Start(p, inp) ==
    /\ proc[p].pc = "idle"
    /\ proc' = [proc EXCEPT ![p] =
            [InitProc EXCEPT !.pc = "loop", !.op = inp.op,
                             !.resources = inp.resources, !.args = inp.args]]
    /\ UNCHANGED <<files, dirs, m_in, m_out>>

\* do_all: the list comprehension has run over all of self.resources; the
\* instance (quick_publish and the like build one per batch) is dropped
BatchDone(p) ==
    /\ proc[p].pc = "loop"
    /\ proc[p].idx = Len(proc[p].resources)
    /\ proc' = [proc EXCEPT ![p] = InitProc]
    /\ UNCHANGED <<files, dirs, m_in, m_out>>

----------------------------------------------------------------------------
(* publish_from_path *)

\* not content
falsy(c) == c = NoContent \/ c = ""

\* lines 173-183: split the query string, map the location, skip what cannot be cached
publish_begin(st) ==
    LET raw == NextResource(st)
        s   == IF st.args.query_string = None THEN get_query_string_from_path(raw)
               ELSE [raised |-> FALSE, path |-> raw, query_string |-> st.args.query_string]
        loc == get_filename_from_path(s.path, s.query_string, st.args.is_ajax)
        st1 == [st EXCEPT !.idx = @ + 1, !.rendered = NotRendered]
    IN  IF s.raised THEN Raise(st1, "MalformedPath")
        ELSE IF loc[1] = None THEN Return(st1)
        ELSE [st1 EXCEPT !.pc = "get_content", !.path = s.path,
                         !.query_string = s.query_string, !.filename = loc[1],
                         !.directory = loc[2], !.content = st.args.content]

PublishBegin(p) ==
    /\ proc[p].pc = "loop"
    /\ proc[p].op = "publish"
    /\ proc[p].idx < Len(proc[p].resources)
    /\ proc' = [proc EXCEPT ![p] = publish_begin(proc[p])]
    /\ UNCHANGED <<files, dirs, m_in, m_out>>

\* response.status_code of a successful render
HttpOk == 200

StatusCodes == {HttpOk, 404}

\* what DummyHandler can do with a request, Bodies being what it can return
\* as response.content
RenderOutcomes(Bodies) ==
    {[raised |-> TRUE, status_code |-> HttpOk, content |-> ""]}
    \cup {[raised |-> FALSE, status_code |-> HttpOk, content |-> b] : b \in Bodies}
    \cup {[raised |-> FALSE, status_code |-> c, content |-> ""] : c \in StatusCodes \ {HttpOk}}

\* handler(request) has been called with outcome r.  The request is
\* RequestFactory().get(path): is_ajax is no parameter of
\* get_content_from_path and the request carries no X-Requested-With header,
\* so the handler is handed a request that is not an AJAX one.
Handled(st, r) ==
    [st EXCEPT !.rendered = [called |-> TRUE, path |-> CurrentResource(st),
                             is_ajax |-> FALSE, raised |-> r.raised,
                             status_code |-> r.status_code,
                             content |-> IF r.raised THEN NoContent ELSE r.content]]

\* get_content_from_path without the test of the status code
get_content_from_path_unchecked(st, r) ==
    IF r.raised THEN Raise(Handled(st, r), "RenderFailed")
    ELSE [Handled(st, r) EXCEPT !.pc = "exists", !.content = r.content]

\* get_content_from_path(content_path), with outcome r of the handler
get_content_from_path(st, r) ==
    IF r.raised THEN Raise(Handled(st, r), "RenderFailed")
    ELSE IF r.status_code # HttpOk THEN Raise(Handled(st, r), "NonSuccessStatus")
    ELSE [Handled(st, r) EXCEPT !.pc = "exists", !.content = r.content]

\* lines 184-185
GetContent(p, Bodies) ==
    /\ proc[p].pc = "get_content"
    /\ IF falsy(proc[p].content)
       THEN \E r \in RenderOutcomes(Bodies) :
                proc' = [proc EXCEPT ![p] = get_content_from_path(proc[p], r)]
       ELSE proc' = [proc EXCEPT ![p].pc = "exists"]
    /\ UNCHANGED <<files, dirs, m_in, m_out>>

\* line 187: os.path.exists(directory)
DirExists(p) ==
    /\ proc[p].pc = "exists"
    /\ proc' = [proc EXCEPT ![p].pc =
            IF os_path_exists(proc[p].directory) THEN "mkstemp" ELSE "makedirs"]
    /\ UNCHANGED <<files, dirs, m_in, m_out>>

\* lines 188-191: os.makedirs(directory)
Makedirs(p) ==
    /\ proc[p].pc = "makedirs"
    /\ IF makedirs_ok(proc[p].directory)
       THEN /\ dirs' = makedirs(proc[p].directory)
            /\ proc' = [proc EXCEPT ![p].pc = "mkstemp"]
       ELSE /\ dirs' = dirs
            /\ proc' = [proc EXCEPT ![p] = Raise(proc[p], "DirectoryCreateFailed")]
    /\ UNCHANGED <<files, m_in, m_out>>

\* the temporary names of process p still free in directory d
free_tmp(d, p) == {k \in 1..MaxTmp : ~os_path_exists(tmp_name(d, p, k))}

\* line 194: tempfile.mkstemp(dir=directory) creates an empty file
Mkstemp(p) ==
    LET d == proc[p].directory
        k == CHOOSE i \in free_tmp(d, p) : \A j \in free_tmp(d, p) : i <= j
    IN  /\ proc[p].pc = "mkstemp"
        /\ IF is_dir(d)
           THEN /\ free_tmp(d, p) # {}
                /\ files' = (tmp_name(d, p, k) :> "") @@ files
                /\ proc' = [proc EXCEPT ![p].pc = "write", ![p].tmpname = tmp_name(d, p, k)]
           ELSE /\ files' = files
                /\ proc' = [proc EXCEPT ![p] = Raise(proc[p], "FileWriteFailed")]
        /\ UNCHANGED <<dirs, m_in, m_out>>

\* os.write leaves the temporary file empty
os_write_nothing(st) == ""

\* line 195: what os.write(f, content) leaves in the temporary file
os_write(st) == st.content

\* lines 195-196: os.write(f, content); os.close(f).  The descriptor still
\* reaches the file when its name has been removed meanwhile.
Write(p) ==
    /\ proc[p].pc = "write"
    /\ files' = IF is_file(proc[p].tmpname)
                THEN [files EXCEPT ![proc[p].tmpname] = os_write(proc[p])]
                ELSE files
    /\ proc' = [proc EXCEPT ![p].pc = "chmod"]
    /\ UNCHANGED <<dirs, m_in, m_out>>

\* line 197: os.chmod(tmpname, ...)
Chmod(p) ==
    /\ proc[p].pc = "chmod"
    /\ proc' = [proc EXCEPT ![p] =
            IF is_file(proc[p].tmpname) THEN [proc[p] EXCEPT !.pc = "rename"]
            ELSE Raise(proc[p], "FileWriteFailed")]
    /\ UNCHANGED <<files, dirs, m_in, m_out>>

\* a rename that does not replace an existing destination
renamed_no_overwrite(src, dst) ==
    [n \in (DOMAIN files \ {src}) \cup {dst} |->
        IF n = dst /\ dst \notin DOMAIN files THEN files[src] ELSE files[n]]

\* the files after os.rename(src, dst) has succeeded
renamed(src, dst) ==
    [n \in (DOMAIN files \ {src}) \cup {dst} |-> IF n = dst THEN files[src] ELSE files[n]]

\* lines 198-200: os.rename(tmpname, filename)
Rename(p) ==
    /\ proc[p].pc = "rename"
    /\ IF is_file(proc[p].tmpname) /\ ~is_dir(proc[p].filename)
       THEN /\ files' = renamed(proc[p].tmpname, proc[p].filename)
            /\ proc' = [proc EXCEPT ![p] = Return(proc[p])]
       ELSE /\ files' = files
            /\ proc' = [proc EXCEPT ![p] = Raise(proc[p], "FileWriteFailed")]
    /\ UNCHANGED <<dirs, m_in, m_out>>

----------------------------------------------------------------------------
(* delete_from_path *)

\* lines 208-210: split the query string, map the location
delete_begin(st) ==
    LET raw == NextResource(st)
        s   == get_query_string_from_path(raw)
        loc == get_filename_from_path(s.path, s.query_string, st.args.is_ajax)
        st1 == [st EXCEPT !.idx = @ + 1, !.rendered = NotRendered]
    IN  IF s.raised THEN Raise(st1, "MalformedPath")
        ELSE [st1 EXCEPT !.pc = "del_exists", !.path = s.path,
                         !.query_string = s.query_string, !.filename = loc[1],
                         !.directory = loc[2]]

DeleteBegin(p) ==
    /\ proc[p].pc = "loop"
    /\ proc[p].op = "delete"
    /\ proc[p].idx < Len(proc[p].resources)
    /\ proc' = [proc EXCEPT ![p] = delete_begin(proc[p])]
    /\ UNCHANGED <<files, dirs, m_in, m_out>>

\* line 213: os.path.exists(filename); os.path.exists(None) raises a
\* TypeError, which the bare except of line 215 turns into the exception
DelExists(p) ==
    /\ proc[p].pc = "del_exists"
    /\ proc' = [proc EXCEPT ![p] =
            IF proc[p].filename = None THEN Raise(proc[p], "FileDeleteFailed")
            ELSE IF os_path_exists(proc[p].filename)
                 THEN [proc[p] EXCEPT !.pc = "del_remove"]
                 ELSE [proc[p] EXCEPT !.pc = "del_rmdir"]]
    /\ UNCHANGED <<files, dirs, m_in, m_out>>

\* lines 214-216: os.remove(filename) fails on a directory and on a missing file
DelRemove(p) ==
    /\ proc[p].pc = "del_remove"
    /\ IF is_file(proc[p].filename)
       THEN /\ files' = os_remove(proc[p].filename)
            /\ proc' = [proc EXCEPT ![p].pc = "del_rmdir"]
       ELSE /\ files' = files
            /\ proc' = [proc EXCEPT ![p] = Raise(proc[p], "FileDeleteFailed")]
    /\ UNCHANGED <<dirs, m_in, m_out>>

\* lines 218-223: os.rmdir(directory), its OSError swallowed
DelRmdir(p) ==
    /\ proc[p].pc = "del_rmdir"
    /\ dirs' = IF proc[p].directory \in dirs /\ is_empty_dir(proc[p].directory)
               THEN dirs \ {proc[p].directory}
               ELSE dirs
    /\ proc' = [proc EXCEPT ![p] = Return(proc[p])]
    /\ UNCHANGED <<files, m_in, m_out>>

----------------------------------------------------------------------------
(* recursive_delete_from_path *)

\* line 203: get_filename_from_path(path, ''): the raw path is not split
recursive_delete_location(raw) == get_filename_from_path(raw, <<>>, FALSE)

\* lines 202-204: shutil.rmtree(directory, True); shutil.rmtree(None, True)
\* raises a TypeError (os.lstat(None)), which ignore_errors does not cover
RecursiveDelete(p) ==
    LET st  == proc[p]
        loc == recursive_delete_location(NextResource(st))
        d   == loc[2]
        st1 == [st EXCEPT !.idx = @ + 1, !.rendered = NotRendered, !.filename = loc[1]]
    IN  /\ st.pc = "loop"
        /\ st.op = "recursive_delete"
        /\ st.idx < Len(st.resources)
        /\ IF d = None
           THEN /\ proc' = [proc EXCEPT ![p] = Raise(st1, "TypeError")]
                /\ UNCHANGED <<files, dirs>>
           ELSE /\ proc' = [proc EXCEPT ![p] = Return(st1)]
                /\ IF d \in dirs
                   THEN /\ files' = without({n \in DOMAIN files : Under(n, d)})
                        /\ dirs' = {x \in dirs : x # d /\ ~Under(x, d)}
                   ELSE UNCHANGED <<files, dirs>>
        /\ UNCHANGED <<m_in, m_out>>

----------------------------------------------------------------------------
(* Inputs *)

\* longest self.resources of a batch
MaxBatch == 3

Ops == {"publish", "delete", "recursive_delete"}

\* a path segment so long that "/w/<LongSeg>/b" is exactly MaxFilenameLen bytes
LongSeg == [i \in 1..(MaxFilenameLen - Len(web_root) - 3) |-> "a"]

PathIndex     == <<"/", "a", "/">>
PathFile      == <<"/", "a", "/", "b">>
PathTop       == <<"/", "a">>
PathNested    == <<"/", "a", "/", "c", "/">>
PathQuery     == <<"/", "a", "/", "?", "q">>
PathTwoMarks  == <<"/", "a", "?", "q", "?", "q">>
PathLongFile  == <<"/">> \o LongSeg \o <<"/", "b">>
PathLongOver  == <<"/">> \o LongSeg \o <<"/", "b", "b">>
PathLongIndex == <<"/">> \o LongSeg \o <<"/">>

Batches(S, n) == UNION {[1..k -> S] : k \in 0..n}

BatchInputs(S, n) ==
    {[op |-> o, resources |-> r, args |-> DefaultArgs] : o \in Ops, r \in Batches(S, n)}

CallInputs(S, os, A) ==
    {[op |-> o, resources |-> <<x>>, args |-> a] : o \in os, x \in S, a \in A}

----------------------------------------------------------------------------
(* Specifications *)

InitFs ==
    /\ files = [n \in {} |-> ""]
    /\ dirs = {web_root}

InitProcs == proc = [p \in Procs |-> InitProc]

NoMapIn == [path |-> None, query_string |-> None, is_ajax |-> FALSE]

NoMapOut ==
    [split_done |-> FALSE,
     split |-> [raised |-> FALSE, path |-> None, query_string |-> None],
     map_done |-> FALSE,
     location |-> <<None, None>>]

Init ==
    /\ InitFs
    /\ InitProcs
    /\ m_in = NoMapIn
    /\ m_out = NoMapOut

Step(p, Bodies) ==
    \/ PublishBegin(p)
    \/ GetContent(p, Bodies)
    \/ DirExists(p)
    \/ Makedirs(p)
    \/ Mkstemp(p)
    \/ Write(p)
    \/ Chmod(p)
    \/ Rename(p)
    \/ DeleteBegin(p)
    \/ DelExists(p)
    \/ DelRemove(p)
    \/ DelRmdir(p)
    \/ RecursiveDelete(p)
    \/ BatchDone(p)

\* concurrent processes, each running one call at a time
ConcInputs ==
    BatchInputs({PathIndex, PathFile}, 1)

ConcBodies == {"", "b1", "b2"}

Next == \E p \in Procs : (\E inp \in ConcInputs : Start(p, inp)) \/ Step(p, ConcBodies)

Spec == Init /\ [][Next]_vars

\* concurrent processes that publish and delete, none deleting recursively
PubDelStep(p, Bodies) ==
    \/ PublishBegin(p)
    \/ GetContent(p, Bodies)
    \/ DirExists(p)
    \/ Makedirs(p)
    \/ Mkstemp(p)
    \/ Write(p)
    \/ Chmod(p)
    \/ Rename(p)
    \/ DeleteBegin(p)
    \/ DelExists(p)
    \/ DelRemove(p)
    \/ DelRmdir(p)
    \/ BatchDone(p)

PubDelInputs == CallInputs({PathIndex, PathFile}, {"publish", "delete"}, {DefaultArgs})

PubDelBodies == {"b1"}

NextPubDel ==
    \E p \in Procs : (\E inp \in PubDelInputs : Start(p, inp)) \/ PubDelStep(p, PubDelBodies)

SpecPubDel == Init /\ [][NextPubDel]_vars

\* one process, as section 5 of the design has it: batches and direct calls
SeqInputs ==
    BatchInputs({PathIndex, PathTwoMarks}, MaxBatch)
    \cup CallInputs({PathFile, PathNested, PathQuery, PathLongFile, PathLongOver,
                     PathLongIndex}, Ops, {DefaultArgs})
    \cup CallInputs({PathTop}, {"delete", "recursive_delete"}, {DefaultArgs})

SeqBodies == {"", "b1"}

NextSeq == (\E inp \in SeqInputs : Start("p1", inp)) \/ Step("p1", SeqBodies)

SpecSeq == Init /\ [][NextSeq]_vars

\* one process calling publish_from_path and delete_from_path with the
\* arguments the middleware passes: query string, content, AJAX flag
AjaxArgs == [DefaultArgs EXCEPT !.is_ajax = TRUE]

QueryArgs == [DefaultArgs EXCEPT !.query_string = <<"q">>]

ContentArgs == {[DefaultArgs EXCEPT !.content = c] : c \in {"", "c1"}}

ArgInputs ==
    CallInputs({PathIndex, PathFile}, {"publish"}, {DefaultArgs, AjaxArgs} \cup ContentArgs)
    \cup CallInputs({PathIndex}, {"publish"}, {QueryArgs})
    \cup CallInputs({PathIndex, PathFile}, {"delete"}, {DefaultArgs, AjaxArgs})
    \cup CallInputs({PathIndex}, {"recursive_delete"}, {DefaultArgs})

ArgBodies == {"b1"}

NextArgs == (\E inp \in ArgInputs : Start("p1", inp)) \/ Step("p1", ArgBodies)

SpecArgs == Init /\ [][NextArgs]_vars

----------------------------------------------------------------------------
(* The path mapper alone: its two functions applied to drawn inputs *)

\* longest path drawn, not counting the long prefix
MaxLen == 3

MapAlphabet == {"/", "a", "?", "q"}

\* lengths of the long prefixes: they put the mapped names of the drawn paths,
\* with and without index document and ',ajax', on both sides of MaxFilenameLen
PadLens == {MaxFilenameLen - k : k \in {5, 10, 18, 23}}

MapPrefixes == {<<>>} \cup {<<"/">> \o [i \in 1..n |-> "a"] : n \in PadLens}

MapPaths == {pre \o s : pre \in MapPrefixes, s \in Batches(MapAlphabet, MaxLen)}

MapQueries == {None, <<>>, <<"q">>}

MapInputs == [path : MapPaths, query_string : MapQueries, is_ajax : BOOLEAN]

InitMap ==
    /\ InitFs
    /\ InitProcs
    /\ m_in \in MapInputs
    /\ m_out = NoMapOut

\* get_query_string_from_path(path)
ApplySplit ==
    /\ ~m_out.split_done
    /\ m_out' = [m_out EXCEPT !.split_done = TRUE,
                              !.split = get_query_string_from_path(m_in.path)]
    /\ UNCHANGED <<files, dirs, proc, m_in>>

\* get_filename_from_path(path, query_string, is_ajax)
ApplyMap ==
    /\ ~m_out.map_done
    /\ m_out' = [m_out EXCEPT !.map_done = TRUE,
                              !.location = get_filename_from_path(
                                  m_in.path, m_in.query_string, m_in.is_ajax)]
    /\ UNCHANGED <<files, dirs, proc, m_in>>

NextMap == ApplySplit \/ ApplyMap

SpecMap == InitMap /\ [][NextMap]_vars

----------------------------------------------------------------------------
(* Properties of the path mapper (SpecMap) *)

NumMarks(s) == Cardinality({i \in 1..Len(s) : s[i] = "?"})

ends_with(s, suffix) ==
    /\ Len(s) >= Len(suffix)
    /\ SubSeq(s, Len(s) - Len(suffix) + 1, Len(s)) = suffix

\* C10: get_query_string_from_path returns (path, None) for a path without
\* '?', (the part before the '?', the part after it) for a path with exactly
\* one '?', and raises for a path with more than one '?'; it never returns a
\* truncated path.
C10_SplitQueryString ==
    m_out.split_done =>
        LET raw == m_in.path
            r   == m_out.split
        IN  /\ NumMarks(raw) = 0 =>
                ~r.raised /\ r.path = raw /\ r.query_string = None
            /\ NumMarks(raw) = 1 =>
                /\ ~r.raised
                /\ r.query_string # None
                /\ r.path \o <<"?">> \o r.query_string = raw
                /\ NumMarks(r.path) = 0
            /\ NumMarks(raw) > 1 => r.raised

\* a path with two '?' has been split: the call raised
C10_Witness ==
    /\ m_out.split_done
    /\ NumMarks(m_in.path) = 2
    /\ m_out.split.raised

\* 'index.html?', with a literal question mark
LiteralIndex == <<"i", "n", "d", "e", "x", ".", "h", "t", "m", "l", "?">>

\* 'index.html%3F', with the question mark percent-encoded
EncodedIndex == <<"i", "n", "d", "e", "x", ".", "h", "t", "m", "l", "%", "3", "F">>

IndexCase ==
    /\ m_out.map_done
    /\ endswith_slash(m_in.path)
    /\ m_in.query_string = None
    /\ ~m_in.is_ajax

\* C8 as stated: for every path ending in '/', the filename mapped without
\* query string and AJAX flag ends in 'index.html?' with a literal '?'.
C8_LiteralQuestionMark == IndexCase => ends_with(m_out.location[1], LiteralIndex)

\* C8, amended: for every path ending in '/' whose mapped filename is at most
\* 255 bytes long, the filename mapped without query string and AJAX flag
\* ends in 'index.html%3F' (the question mark percent-encoded, never literal);
\* a longer one maps to no location.
C8_EncodedQuestionMark ==
    IndexCase =>
        IF Len(web_root) + Len(lstrip_slash(m_in.path)) + Len(EncodedIndex) + 1
               <= MaxFilenameLen
        THEN /\ ends_with(m_out.location[1], EncodedIndex)
             /\ ~ends_with(m_out.location[1], LiteralIndex)
             /\ m_out.location[2] # None
        ELSE m_out.location = <<None, None>>

\* a path ending in '/' has been mapped to a location
C8_Witness ==
    /\ IndexCase
    /\ m_out.location[1] # None
    /\ Len(m_in.path) > 1

\* C9: the AJAX and the non-AJAX mapping of the same path and query string
\* are never the same location: whenever one of the two is a location, the
\* other is a different location or no location.  (Both are "no location"
\* when already the non-AJAX name is longer than 255 bytes.)
C9_AjaxDistinct ==
    m_out.map_done =>
        LET other == get_filename_from_path(m_in.path, m_in.query_string, ~m_in.is_ajax)
        IN  /\ (m_out.location[1] # None \/ other[1] # None) => m_out.location[1] # other[1]
            /\ (m_in.is_ajax /\ m_out.location[1] # None) =>
                   /\ other[1] # None
                   /\ m_out.location[1] = other[1] \o <<",", "a", "j", "a", "x">>

\* an AJAX location and the non-AJAX location of the same path and query
C9_Witness ==
    /\ m_out.map_done
    /\ m_in.is_ajax
    /\ m_in.query_string = <<"q">>
    /\ m_out.location[1] # None
    /\ get_filename_from_path(m_in.path, m_in.query_string, FALSE)[1] # None

\* a path that names a file: it begins somewhere and does not end in '/'
FileCase ==
    /\ m_out.map_done
    /\ Len(m_in.path) > 0
    /\ ~endswith_slash(m_in.path)
    /\ ~m_in.is_ajax

\* web_root, one '/', the path without its leading '/', then the query string
JoinedName ==
    LET q == IF m_in.query_string = None THEN <<>> ELSE m_in.query_string
    IN  web_root \o <<"/">> \o lstrip_slash(m_in.path) \o q

\* C11: for every path not ending in '/' and every query string, the filename
\* mapped without the AJAX flag is exactly web_root joined with the path
\* (leading '/' stripped), immediately followed by the query string, with
\* nothing between the two (and no index document); the directory is the
\* dirname of that name.  A name longer than 255 bytes is no location.
C11_PathThenQuery ==
    FileCase =>
        IF Len(JoinedName) <= MaxFilenameLen
        THEN /\ m_out.location[1] = JoinedName
             /\ m_out.location[2] = os_path_dirname(JoinedName)
        ELSE m_out.location = <<None, None>>

\* a path not ending in '/' has been mapped with a query string
C11_Witness ==
    /\ FileCase
    /\ m_in.query_string = <<"q">>
    /\ m_out.location[1] = web_root \o m_in.path \o <<"q">>

\* arguments as the callers of the mapper pass them: a path component that
\* begins with one '/' and holds no '?', and a query string that is absent
\* or not empty
WellFormed(i) ==
    /\ Len(i.path) > 0 /\ i.path[1] = "/"
    /\ Len(i.path) > 1 => i.path[2] # "/"
    /\ NumMarks(i.path) = 0
    /\ i.query_string # <<>>

\* C19 as stated: the mapping is injective on the inputs it maps to a
\* location: no other (path, query string, AJAX flag) maps to the same
\* filename.
C19_MappingInjective ==
    (m_out.map_done /\ WellFormed(m_in) /\ m_out.location[1] # None) =>
        \A o \in MapInputs :
            (WellFormed(o) /\ o # m_in) =>
                get_filename_from_path(o.path, o.query_string, o.is_ajax)[1]
                    # m_out.location[1]

----------------------------------------------------------------------------
(* Properties of publish, delete and do_all in one process (SpecSeq) *)

\* the location a publish or delete call with the arguments of st maps raw
\* to: <<None, None>> when the path is malformed or cannot be cached
MappedOf(st, raw) ==
    LET s == IF st.op = "publish" /\ st.args.query_string # None
             THEN [raised |-> FALSE, path |-> raw, query_string |-> st.args.query_string]
             ELSE get_query_string_from_path(raw)
    IN  IF s.raised THEN <<None, None>>
        ELSE get_filename_from_path(s.path, s.query_string, st.args.is_ajax)

\* the content the last of the returned calls 1..k left at filename fn
RECURSIVE LastContent(_, _, _)
LastContent(returned, fn, k) ==
    IF k = 0 THEN NoContent
    ELSE IF returned[k].filename = fn THEN returned[k].content
    ELSE LastContent(returned, fn, k - 1)

\* C2: when publish has returned for a path the handler rendered with status
\* 200, the file at the location mapped from the path exists and holds
\* exactly the body the handler returned, whatever it held before.
C2_RoundTrip ==
    LET st == proc["p1"]
    IN  (st.pc = "loop" /\ st.op = "publish" /\ st.idx >= 1 /\ st.rendered.called) =>
            LET fn == MappedOf(st, st.resources[st.idx])[1]
            IN  /\ fn # None
                /\ is_file(fn)
                /\ files[fn] = st.rendered.content

\* a second publish of the same path has replaced the body the first one wrote
C2_Witness ==
    LET st == proc["p1"]
    IN  /\ st.pc = "loop" /\ st.op = "publish" /\ st.idx = 2
        /\ st.resources[1] = st.resources[2]
        /\ st.returned[1].filename # None
        /\ st.returned[1].content # st.rendered.content
        /\ files[st.returned[2].filename] = st.rendered.content

\* C3 as stated: for any cacheable path and any state of the filesystem,
\* delete raises no error and after it no file is left at the mapped location.
C3_DeleteAnyState ==
    LET st == proc["p1"]
        fn == MappedOf(st, st.resources[st.idx])[1]
    IN  (st.op = "delete" /\ st.idx >= 1 /\ fn # None) =>
            /\ st.error = NoError
            /\ st.pc = "loop" => ~is_file(fn)

\* C3, amended: for any cacheable path whose mapped location is not a
\* directory, delete raises no error, whether or not the file exists, and
\* after it nothing exists at the mapped location.
C3_DeleteIdempotent ==
    LET st == proc["p1"]
        fn == MappedOf(st, st.resources[st.idx])[1]
    IN  (st.op = "delete" /\ st.idx >= 1 /\ fn # None /\ ~is_dir(fn)) =>
            /\ st.error = NoError
            /\ st.pc = "loop" => ~os_path_exists(fn)

\* delete has returned twice for the same cacheable path
C3_Witness ==
    LET st == proc["p1"]
    IN  /\ st.pc = "loop" /\ st.op = "delete" /\ st.idx = 2
        /\ st.resources[1] = st.resources[2]
        /\ st.returned[2].filename # None
        /\ st.error = NoError

\* C4: a path whose mapped name is longer than 255 bytes maps to no location,
\* and publish returns for it without an error, without a call of the
\* handler and without any change of the filesystem; a name of exactly 255
\* bytes (or less) is the location publish goes on with.
C4_UncacheableSkipped ==
    [][LET st == proc["p1"]
       IN  (/\ st.pc = "loop" /\ st.op = "publish" /\ st.idx < Len(st.resources)
            /\ proc'["p1"] # st
            /\ st.args.query_string = None
            /\ ~get_query_string_from_path(NextResource(st)).raised) =>
               LET s    == get_query_string_from_path(NextResource(st))
                   name == mapped_name(s.path, s.query_string, st.args.is_ajax)
                   loc  == get_filename_from_path(s.path, s.query_string, st.args.is_ajax)
                   st2  == proc'["p1"]
               IN  IF Len(name) > MaxFilenameLen
                   THEN /\ loc = <<None, None>>
                        /\ files' = files /\ dirs' = dirs
                        /\ st2.pc = "loop" /\ st2.error = NoError
                        /\ st2.idx = st.idx + 1
                        /\ ~st2.rendered.called
                   ELSE /\ loc[1] = name
                        /\ st2.pc = "get_content" /\ st2.filename = name]_vars

\* publish has returned for a path whose mapped name is 256 bytes long
C4_Witness ==
    LET st == proc["p1"]
    IN  /\ st.pc = "loop" /\ st.op = "publish" /\ st.idx = 1
        /\ st.returned[1].filename = None
        /\ st.error = NoError
        /\ LET s == get_query_string_from_path(st.resources[1])
           IN  Len(mapped_name(s.path, s.query_string, FALSE)) = MaxFilenameLen + 1

\* C14: when the handler raises, publish fails with the render error; when
\* it returns a status code other than 200, publish fails with the status
\* error; in both cases the filesystem is as it was before the call: no
\* directory and no temporary file has been created and the file at the
\* final name, if there is one, keeps its content.  (Neither the step that
\* maps the path nor the step that renders changes the filesystem.)
C14_RenderFailureLeavesFs ==
    [][LET st  == proc["p1"]
           st2 == proc'["p1"]
       IN  (st.op = "publish" /\ st.pc \in {"loop", "get_content"} /\ st2 # st) =>
              /\ files' = files /\ dirs' = dirs
              /\ (st.pc = "get_content" /\ st2.rendered.called) =>
                    /\ st2.rendered.raised =>
                          st2.error = "RenderFailed" /\ st2.pc = "idle"
                    /\ (~st2.rendered.raised /\ st2.rendered.status_code # 200) =>
                          st2.error = "NonSuccessStatus" /\ st2.pc = "idle"
                    /\ (~st2.rendered.raised /\ st2.rendered.status_code = 200) =>
                          st2.error = NoError /\ st2.pc = "exists"]_vars

\* the second publish of a path has failed on the status code, and the file
\* the first one wrote is still there with its body
C14_Witness ==
    LET st == proc["p1"]
    IN  /\ st.pc = "idle" /\ st.op = "publish" /\ st.idx = 2
        /\ st.error = "NonSuccessStatus"
        /\ st.resources[1] = st.resources[2]
        /\ Len(st.returned) = 1
        /\ st.returned[1].filename # None
        /\ is_file(st.returned[1].filename)
        /\ files[st.returned[1].filename] = "b1"
        /\ \A n \in DOMAIN files : ~is_tmp_name(n)

\* the directory web_root/p of a path prefix p
PrefixDir(raw) ==
    LET rel == rstrip_slash(lstrip_slash(raw))
    IN  IF rel = <<>> THEN web_root ELSE os_path_join(web_root, rel)

\* C5 as stated: recursive_delete of a path ending in '/' raises no error,
\* also when the directory does not exist, and leaves no file under
\* web_root/path.
C5_RecursiveDeleteRemovesAll ==
    LET st == proc["p1"]
    IN  (st.op = "recursive_delete" /\ st.idx >= 1
         /\ endswith_slash(st.resources[st.idx])) =>
            /\ st.error = NoError
            /\ st.pc = "loop" =>
                 \A n \in DOMAIN files : ~Under(n, PrefixDir(st.resources[st.idx]))

\* the path of the call the process is in, or has just left, is well formed
\* and maps to no location
Uncacheable(st) ==
    /\ st.idx >= 1
    /\ IF st.op = "recursive_delete"
       THEN recursive_delete_location(st.resources[st.idx])[1] = None
       ELSE /\ ~get_query_string_from_path(st.resources[st.idx]).raised
            /\ MappedOf(st, st.resources[st.idx])[1] = None

\* C16 as stated: delete and recursive_delete of a path whose mapped name is
\* longer than 255 bytes raise no error (and change nothing in the
\* filesystem), as publish does.
C16_UncacheableSilentSkip ==
    LET st == proc["p1"]
    IN  (st.op \in {"delete", "recursive_delete"} /\ Uncacheable(st)) => st.error = NoError

\* name n begins with the characters of pre
has_prefix(n, pre) == Len(n) >= Len(pre) /\ SubSeq(n, 1, Len(pre)) = pre

\* C18 as stated: recursive_delete of a path, with or without a trailing
\* '/', removes nothing outside the path's own subtree: every file whose
\* name does not begin with web_root joined with the path is still there,
\* with its content, after the call.
C18_RecursiveDeleteFrame ==
    [][LET st == proc["p1"]
       IN  (/\ st.op = "recursive_delete" /\ st.pc = "loop"
            /\ st.idx < Len(st.resources)
            /\ proc'["p1"] # st) =>
              LET own == os_path_join(web_root, lstrip_slash(NextResource(st)))
              IN  \A n \in DOMAIN files :
                     ~has_prefix(n, own) => (n \in DOMAIN files' /\ files'[n] = files[n])]_vars

\* C6 as stated: every operation handed a path with two or more '?' ends
\* with the malformed-path error.
C6_TwoMarksAlwaysMalformed ==
    LET st == proc["p1"]
    IN  (st.idx >= 1 /\ NumMarks(st.resources[st.idx]) >= 2) => st.error = "MalformedPath"

\* C6, amended: a path with two or more '?' makes publish (called without a
\* query string of the caller's) and delete raise the malformed-path error,
\* with no change of the filesystem and no call of the handler;
\* recursive_delete does not split its path and raises no such error.
C6_TwoMarksMalformed ==
    [][LET st  == proc["p1"]
           st2 == proc'["p1"]
       IN  (/\ st.pc = "loop" /\ st.idx < Len(st.resources)
            /\ st2 # st
            /\ NumMarks(NextResource(st)) >= 2) =>
               IF st.op = "delete" \/ (st.op = "publish" /\ st.args.query_string = None)
               THEN /\ st2.error = "MalformedPath"
                    /\ st2.pc = "idle"
                    /\ ~st2.rendered.called
                    /\ files' = files /\ dirs' = dirs
               ELSE st2.error # "MalformedPath"]_vars

\* delete has raised the malformed-path error
C6_Witness ==
    LET st == proc["p1"]
    IN  /\ st.pc = "idle" /\ st.op = "delete" /\ st.idx >= 1
        /\ st.error = "MalformedPath"
        /\ NumMarks(st.resources[st.idx]) >= 2

\* the file name the j-th call of the batch of st works on
WorkedOn(st, j) ==
    IF st.op = "recursive_delete" THEN recursive_delete_location(st.resources[j])[1]
    ELSE MappedOf(st, st.resources[j])[1]

\* C7: do_all hands the resources to the function one at a time and in list
\* order; the first exception ends the batch, so that no later resource is
\* handed to the function, and what the calls before it published stays
\* published (what they deleted stays deleted).
C7_BatchOrder ==
    LET st == proc["p1"]
    IN  /\ st.idx <= Len(st.resources)
        /\ Len(st.returned) = IF st.pc = "loop" \/ st.idx = 0 THEN st.idx ELSE st.idx - 1
        /\ \A j \in 1..Len(st.returned) : st.returned[j].filename = WorkedOn(st, j)
        /\ st.error # NoError =>
            /\ st.pc = "idle"
            /\ st.idx >= 1
            /\ st.op = "publish" =>
                 \A j \in 1..Len(st.returned) :
                    LET fn == st.returned[j].filename
                    IN  fn # None =>
                          /\ is_file(fn)
                          /\ files[fn] = LastContent(st.returned, fn, Len(st.returned))
            /\ st.op = "delete" =>
                 \A j \in 1..Len(st.returned) : ~is_file(st.returned[j].filename)

\* the second of three resources has failed after the first was published
C7_Witness ==
    LET st == proc["p1"]
    IN  /\ st.pc = "idle" /\ st.op = "publish" /\ st.error # NoError
        /\ st.idx = 2 /\ Len(st.resources) = 3
        /\ Len(st.returned) = 1
        /\ is_file(st.returned[1].filename)

----------------------------------------------------------------------------
(* Properties of concurrent processes (Spec) *)

\* the complete content the publish call of process p is to write
CompleteContent(p) ==
    IF proc[p].rendered.called THEN proc[p].rendered.content ELSE proc[p].args.content

\* C1: whatever the interleaving of the steps of publish calls, the content
\* at a final (non-temporary) name changes only by the rename of one of them,
\* and then to the complete content of that call: at every moment the file is
\* absent or holds the complete content of one publish, never an empty or
\* partly written temporary state.
C1_AtomicPublish ==
    [][\A n \in DOMAIN files' :
          (~is_tmp_name(n) /\ (n \notin DOMAIN files \/ files'[n] # files[n])) =>
              \E p \in Procs :
                  /\ proc[p].pc = "rename"
                  /\ proc[p].filename = n
                  /\ proc'[p].pc = "loop"
                  /\ files'[n] = CompleteContent(p)]_vars

\* two processes publish the same path: one has filled its temporary file,
\* the other's is still empty, and the final name holds an earlier body
C1_Witness ==
    \E p, q \in Procs :
        /\ p # q
        /\ proc[p].pc = "write" /\ proc[q].pc = "rename"
        /\ proc[p].filename = proc[q].filename
        /\ is_file(proc[p].tmpname) /\ files[proc[p].tmpname] = ""
        /\ proc[p].content # "" /\ proc[q].content # ""
        /\ is_file(proc[q].tmpname) /\ files[proc[q].tmpname] = proc[q].content
        /\ is_file(proc[p].filename)
        /\ files[proc[p].filename] \notin {"", proc[p].content}

\* process p has completed a publish of the file named n
Published(p, n) ==
    /\ proc[p].pc = "loop" /\ proc[p].op = "publish" /\ proc[p].idx = 1
    /\ proc[p].returned[1].filename = n

\* C12: when two writers race to publish the same path, a rename that
\* succeeds leaves at the final name the complete content of the writer that
\* renamed, whatever the file held before and whichever of the two created
\* and filled its temporary file first; and once a writer has completed, the
\* other writer's steps before its own rename (mkstemp, write, chmod) leave
\* the final name as it is.  So the content after both have completed is
\* that of the writer that renamed last.
C12_LastRenameWins ==
    [][\A p, q \in Procs :
          LET n == proc[p].filename
          IN  (/\ p # q
               /\ proc'[p] # proc[p]
               /\ proc[p].op = "publish"
               /\ proc[p].pc \in {"exists", "makedirs", "mkstemp", "write", "chmod", "rename"}) =>
                  /\ (proc[p].pc = "rename" /\ proc'[p].pc = "loop") =>
                         /\ n \in DOMAIN files'
                         /\ files'[n] = CompleteContent(p)
                         /\ proc'[p].error = NoError
                  /\ (proc[p].pc # "rename" /\ Published(q, n)) =>
                         /\ (n \in DOMAIN files') = (n \in DOMAIN files)
                         /\ n \in DOMAIN files => files'[n] = files[n]]_vars

\* both writers have completed a publish of the same path with different
\* bodies, and the file holds one of the two
C12_Witness ==
    \E p, q \in Procs :
        /\ p # q
        /\ proc[p].returned # <<>> /\ proc[q].returned # <<>>
        /\ Published(p, proc[q].returned[1].filename)
        /\ Published(q, proc[p].returned[1].filename)
        /\ proc[p].returned[1].filename # None
        /\ proc[p].returned[1].content # proc[q].returned[1].content
        /\ is_file(proc[p].returned[1].filename)
        /\ files[proc[p].returned[1].filename] = proc[p].returned[1].content

----------------------------------------------------------------------------
(* Properties of calls with arguments (SpecArgs) *)

\* C13 as stated: whenever publish_from_path gets the content from the
\* handler, the handler is handed the original, unsplit path of the call and
\* the AJAX flag of the call.
C13_RendererSeesPathAndFlag ==
    LET st == proc["p1"]
    IN  (st.op = "publish" /\ st.rendered.called) =>
            /\ st.rendered.path = st.resources[st.idx]
            /\ st.rendered.is_ajax = st.args.is_ajax

\* the resource of the delete call process p1 is in, or is about to begin
DeleteResource ==
    LET st == proc["p1"]
    IN  IF st.pc = "loop" THEN NextResource(st) ELSE CurrentResource(st)

\* C15: a delete call removes at most the one file at the location mapped
\* from its path and AJAX flag, and at most the directory of that file, and
\* this only when nothing is left in it: every other file (a sibling in the
\* same directory, the other AJAX variant of the path, a file elsewhere)
\* keeps its content, a directory that still holds something stays, and the
\* rmdir that fails on it is no error of the call.
C15_DeleteFrame ==
    [][LET st  == proc["p1"]
           st2 == proc'["p1"]
       IN  (/\ st.op = "delete" /\ st2 # st
            /\ st.pc \in {"loop", "del_exists", "del_remove", "del_rmdir"}
            /\ ~(st.pc = "loop" /\ st.idx = Len(st.resources))) =>
              LET loc == MappedOf(st, DeleteResource)
              IN  /\ DOMAIN files' \subseteq DOMAIN files
                  /\ \A n \in DOMAIN files :
                        n # loc[1] => (n \in DOMAIN files' /\ files'[n] = files[n])
                  /\ dirs' \subseteq dirs
                  /\ dirs \ dirs' \subseteq {loc[2]}
                  /\ dirs' # dirs =>
                        /\ \A n \in DOMAIN files' : os_path_dirname(n) # loc[2]
                        /\ \A d \in dirs' : os_path_dirname(d) # loc[2]
                  /\ (st.pc = "del_remove" /\ is_file(loc[1])) => loc[1] \notin DOMAIN files'
                  /\ st.pc = "del_rmdir" =>
                        /\ st2.pc = "loop" /\ st2.error = NoError
                        /\ (\E n \in DOMAIN files : os_path_dirname(n) = loc[2]) =>
                              dirs' = dirs]_vars

\* delete has returned for the non-AJAX variant of a path: its file is gone,
\* the AJAX variant and a sibling are still in the directory with their
\* bodies, and the directory is still there
C15_Witness ==
    LET st == proc["p1"]
        fn == st.returned[1].filename
    IN  /\ st.pc = "loop" /\ st.op = "delete" /\ st.idx = 1
        /\ ~st.args.is_ajax
        /\ st.error = NoError
        /\ fn # None
        /\ ~os_path_exists(fn)
        /\ is_file(fn \o <<",", "a", "j", "a", "x">>)
        /\ files[fn \o <<",", "a", "j", "a", "x">>] = "b1"
        /\ \E n \in DOMAIN files : n # fn \o <<",", "a", "j", "a", "x">>
                                   /\ os_path_dirname(n) = os_path_dirname(fn)
        /\ os_path_dirname(fn) \in dirs

\* C17 as stated: when the caller supplies the content of a publish call,
\* the empty string included, the handler is never called and the file at
\* the mapped location holds exactly the supplied content once the call has
\* returned.
C17_SuppliedContentWritten ==
    LET st == proc["p1"]
    IN  (st.op = "publish" /\ st.args.content # NoContent /\ st.idx >= 1) =>
            /\ ~st.rendered.called
            /\ (st.pc = "loop" /\ st.error = NoError) =>
                  LET fn == MappedOf(st, st.resources[st.idx])[1]
                  IN  fn # None => (is_file(fn) /\ files[fn] = st.args.content)

----------------------------------------------------------------------------
(* Properties of concurrent publishers and deleters (SpecPubDel) *)

\* C20 as stated: processes that concurrently publish renderable, cacheable
\* paths into the same directory complete without an error, also when the
\* directory does not exist as they start (test of the directory, then its
\* creation) and when a concurrent delete of a sibling removes the emptied
\* directory between a publisher's test of the directory and its mkstemp:
\* no publish call ends with the directory or the file error.
C20_ConcurrentPublishCompletes ==
    \A p \in Procs :
        proc[p].op = "publish" =>
            proc[p].error \notin {"DirectoryCreateFailed", "FileWriteFailed"}

====
